---- MODULE Spec2Model ----
(***************************************************************************)
(* Model of deploy/bin/prune-ami-snapshots.py: the per-region scan         *)
(* (orphaned_ami_snapshots) run on a thread pool, the in-order collection  *)
(* and report loop of main, and the sequential deletion loop.              *)
(*                                                                         *)
(* Strings that the program inspects character by character (snapshot      *)
(* descriptions, image ids, snapshot ids) are sequences of one-character   *)
(* strings, so that the regular expressions and sorted() are computed and  *)
(* not assumed.                                                            *)
(***************************************************************************)
EXTENDS Integers, Sequences, FiniteSets, TLC

\* ------------------------------------------------------------------ bounds
NumRegions == 2
MaxSnapshots == 2

\* --------------------------------------------------------------- constants
\* futures.ThreadPoolExecutor(6)
MaxWorkers == 6

\* ------------------------------------------------------- the modelled world
RegionNames == <<"us-east-1", "us-west-2", "eu-west-1", "ap-south-1">>

\* boto3.session.Session().get_available_regions('ec2')
regions == SubSeq(RegionNames, 1, NumRegions)

Futures == 1..NumRegions

AMI_1 == <<"a","m","i","-","1">>
AMI_2 == <<"a","m","i","-","2">>
ImageIds == {AMI_1, AMI_2}

SNAP_10 == <<"s","n","a","p","-","1","0">>
SNAP_9 == <<"s","n","a","p","-","9">>
\* The snapshot ids of a region that holds no, one or two snapshots.
SnapshotIdSets == { {}, {SNAP_9}, {SNAP_9, SNAP_10} }

\* "Created by CreateImage(i-1) for ami-1"
DESC_CREATED == <<"C","r","e","a","t","e","d"," ","b","y"," ","C","r","e","a","t","e","I","m","a","g","e","(","i","-","1",")"," ","f","o","r"," ","a","m","i","-","1">>
\* "Copied for DestinationAmi ami-2 from SourceAmi ami-1"
DESC_COPIED == <<"C","o","p","i","e","d"," ","f","o","r"," ","D","e","s","t","i","n","a","t","i","o","n","A","m","i"," ","a","m","i","-","2"," ","f","r","o","m"," ","S","o","u","r","c","e","A","m","i"," ","a","m","i","-","1">>
\* "Copied for DestinationAmi ami-1+2"
DESC_COPIED_PLUS == <<"C","o","p","i","e","d"," ","f","o","r"," ","D","e","s","t","i","n","a","t","i","o","n","A","m","i"," ","a","m","i","-","1","+","2">>
\* "Created by CreateImage() for ami-2"
DESC_NO_INSTANCE == <<"C","r","e","a","t","e","d"," ","b","y"," ","C","r","e","a","t","e","I","m","a","g","e","(",")"," ","f","o","r"," ","a","m","i","-","2">>
\* "Backup Copied for DestinationAmi ami-2"
DESC_NOT_AT_START == <<"B","a","c","k","u","p"," ","C","o","p","i","e","d"," ","f","o","r"," ","D","e","s","t","i","n","a","t","i","o","n","A","m","i"," ","a","m","i","-","2">>

\* The (Description, VolumeSize) pairs a listed snapshot may carry.
SnapshotAttrs ==
    { <<DESC_CREATED, 1>>, <<DESC_COPIED, 2>>, <<DESC_COPIED_PLUS, 1>>,
      <<DESC_NO_INSTANCE, 2>>, <<DESC_NOT_AT_START, 1>> }

Snapshot(id, attr) ==
    [SnapshotId |-> id, Description |-> attr[1], VolumeSize |-> attr[2]]

\* The responses describe_snapshots may give: one snapshot per snapshot id.
SnapshotListings ==
    UNION { { { Snapshot(id, f[id]) : id \in ids } : f \in [ids -> SnapshotAttrs] }
            : ids \in SnapshotIdSets }

\* The responses describe_images may give (one image per id).
ImageListings == { {}, {AMI_1}, {AMI_1, AMI_2} }

\* ------------------------------------------------------ regular expressions
NoMatch == <<>>

\* Python's \s for a byte string
IsSpace(c) == c \in {" ", "\t", "\n", "\r", "\f"}

\* the literal lit occurs in s at position i
LiteralAt(s, i, lit) ==
    /\ i + Len(lit) - 1 <= Len(s)
    /\ \A k \in 1..Len(lit) : s[i + k - 1] = lit[k]

IsCloseParen(c) == c = ")"
\* [^\s+]: anything but whitespace and '+'
IsAmiStop(c) == IsSpace(c) \/ c = "+"

\* [^\)]+ from position i of s: the end (exclusive) of the longest run without ')'
NotParenRunEnd(s, i) ==
    CHOOSE j \in i..(Len(s) + 1) :
        /\ \A k \in i..(j - 1) : ~IsCloseParen(s[k])
        /\ (j = Len(s) + 1 \/ IsCloseParen(s[j]))

\* [^\s+]+ from position i of s: the end (exclusive) of the longest run of
\* characters that are neither whitespace nor '+'
AmiRunEnd(s, i) ==
    CHOOSE j \in i..(Len(s) + 1) :
        /\ \A k \in i..(j - 1) : ~IsAmiStop(s[k])
        /\ (j = Len(s) + 1 \/ IsAmiStop(s[j]))

LIT_CREATED == <<"C","r","e","a","t","e","d"," ","b","y"," ","C","r","e","a","t","e","I","m","a","g","e","(">>
LIT_FOR == <<")"," ","f","o","r"," ">>
LIT_COPIED == <<"C","o","p","i","e","d"," ","f","o","r"," ","D","e","s","t","i","n","a","t","i","o","n","A","m","i"," ">>

\* RE_CREATED_AMI.match(d): group 'ami', or NoMatch.
\* 'Created by CreateImage\([^\)]+\) for (?P<ami>[^\s+]+)', anchored at the start
RE_CREATED_AMI(d) ==
    LET p == Len(LIT_CREATED) + 1
    IN  IF ~LiteralAt(d, 1, LIT_CREATED) THEN NoMatch
        ELSE LET q == NotParenRunEnd(d, p)
                 r == q + Len(LIT_FOR)
             IN  IF q = p \/ ~LiteralAt(d, q, LIT_FOR) THEN NoMatch
                 ELSE LET e == AmiRunEnd(d, r)
                      IN  IF e = r THEN NoMatch ELSE SubSeq(d, r, e - 1)

\* RE_COPIED_AMI.match(d): group 'ami', or NoMatch.
\* 'Copied for DestinationAmi (?P<ami>[^\s+]+)', anchored at the start
RE_COPIED_AMI(d) ==
    LET r == Len(LIT_COPIED) + 1
    IN  IF ~LiteralAt(d, 1, LIT_COPIED) THEN NoMatch
        ELSE LET e == AmiRunEnd(d, r)
             IN  IF e = r THEN NoMatch ELSE SubSeq(d, r, e - 1)

\* ------------------------------------------------------------------ sorted()
Ord(c) ==
    CASE c = "-" -> 45
      [] c = "0" -> 48 [] c = "1" -> 49 [] c = "2" -> 50 [] c = "9" -> 57
      [] c = "a" -> 97 [] c = "n" -> 110 [] c = "p" -> 112 [] c = "s" -> 115

\* a < b for Python strings
StrLess(a, b) ==
    LET m == IF Len(a) < Len(b) THEN Len(a) ELSE Len(b)
        diff == { n \in 1..m : a[n] # b[n] }
    IN  IF diff = {} THEN Len(a) < Len(b)
        ELSE LET n == CHOOSE x \in diff : \A y \in diff : x <= y
             IN  Ord(a[n]) < Ord(b[n])

\* Mutation: shorter ids first, as ordering by the number in the id would give.
RECURSIVE sorted_ShortestFirst(_)
sorted_ShortestFirst(S) ==
    IF S = {} THEN <<>>
    ELSE LET least == CHOOSE x \in S : \A y \in S \ {x} :
                          Len(x) < Len(y) \/ (Len(x) = Len(y) /\ StrLess(x, y))
         IN  <<least>> \o sorted_ShortestFirst(S \ {least})

RECURSIVE sorted(_)
sorted(S) ==
    IF S = {} THEN <<>>
    ELSE LET least == CHOOSE x \in S : \A y \in S \ {x} : StrLess(x, y)
         IN  <<least>> \o sorted(S \ {least})

\* ---------------------------------------------------- orphaned_ami_snapshots
\* snapshots_by_id: the loop of lines 40-41
SnapshotsById(snapshots) ==
    [id \in { s.SnapshotId : s \in snapshots } |->
        CHOOSE s \in snapshots : s.SnapshotId = id]

\* the value the loop of lines 40-52 leaves in snapshot_to_ami for a matching
\* snapshot: the second assignment overwrites the first
InferredAmi(d) ==
    IF RE_COPIED_AMI(d) # NoMatch THEN RE_COPIED_AMI(d) ELSE RE_CREATED_AMI(d)

SnapshotToAmi(snapshots) ==
    LET matched == { s \in snapshots :
                        RE_CREATED_AMI(s.Description) # NoMatch
                        \/ RE_COPIED_AMI(s.Description) # NoMatch }
        by_id == SnapshotsById(snapshots)
    IN  [id \in { s.SnapshotId : s \in matched } |-> InferredAmi(by_id[id].Description)]

Values(f) == { f[x] : x \in DOMAIN f }

\* Mutation: every snapshot with an inferred image id counts as orphaned.
OrphanedSnapshots_AllMatched(snapshot_to_ami, amis) == DOMAIN snapshot_to_ami

\* lines 54-56
OrphanedSnapshots(snapshot_to_ami, amis) ==
    LET unknown_amis == Values(snapshot_to_ami) \ amis
    IN  { id \in DOMAIN snapshot_to_ami : snapshot_to_ami[id] \in unknown_amis }

RECURSIVE SumSet(_)
SumSet(S) ==
    IF S = {} THEN 0
    ELSE LET x == CHOOSE y \in S : TRUE IN x + SumSet(S \ {x})

\* Mutation: the sizes are summed as a set, equal sizes counted once.
SumVolumeSize_Distinct(by_id, ids) == SumSet({ by_id[id].VolumeSize : id \in ids })

\* sum(snapshots_by_id[sid]['VolumeSize'] for sid in ids)
RECURSIVE SumVolumeSize(_, _)
SumVolumeSize(by_id, ids) ==
    IF ids = {} THEN 0
    ELSE LET id == CHOOSE x \in ids : TRUE
         IN  by_id[id].VolumeSize + SumVolumeSize(by_id, ids \ {id})

EmptyResult(region) == [region |-> region, empty |-> TRUE]

\* the dict returned at lines 60-71
ScanResult(region, snapshots, images) ==
    LET amis == images
        snapshot_to_ami == SnapshotToAmi(snapshots)
        snapshots_by_id == SnapshotsById(snapshots)
        orphaned_snapshots == OrphanedSnapshots(snapshot_to_ami, amis)
    IN  [ region |-> region,
          ami_count |-> Cardinality(images),
          snapshot_count |-> Cardinality(snapshots),
          snapshot_to_ami |-> snapshot_to_ami,
          snapshots |-> snapshots_by_id,
          snapshots_size |-> SumVolumeSize(snapshots_by_id, DOMAIN snapshots_by_id),
          snapshots_ami_size |-> SumVolumeSize(snapshots_by_id, DOMAIN snapshot_to_ami),
          orphaned_snapshots |-> orphaned_snapshots,
          orphaned_size |-> SumVolumeSize(snapshots_by_id, orphaned_snapshots) ]

\* -------------------------------------------------------------------- state
VARIABLES
    delete,                   \* main's argument (--delete)
    print_orphans,            \* main's argument (--print-orphans)
    pc,                       \* where main is
    idx,                      \* position of main's loop over regions, then over fs
    fs,                       \* the futures, in submission order
    frame,                    \* each scan's locals: snapshots, images
    overtaken,                \* whether a scan has completed before one submitted earlier
    describe_calls,           \* the read requests sent, as <<operation, region>>
    results,
    total_size,
    total_orphaned_size,
    total_orphaned_snapshots,
    dres,                     \* position of the deletion loop in results
    todo,                     \* what is left of sorted(res['orphaned_snapshots'])
    delete_calls,             \* the delete_snapshot requests sent, in order
    exception,                \* the error that ended main, if any
    out                       \* standard output

vars == << delete, print_orphans, pc, idx, fs, frame, overtaken, describe_calls,
           results, total_size, total_orphaned_size, total_orphaned_snapshots,
           dres, todo, delete_calls, exception, out >>

scan_vars == << fs, frame, overtaken, describe_calls >>
main_vars == << pc, idx, results, total_size, total_orphaned_size,
                total_orphaned_snapshots, dres, todo, delete_calls, exception, out >>

NoResult == [none |-> TRUE]
NewFuture == [state |-> "new", result |-> NoResult, exception |-> FALSE]
NewFrame == [snapshots |-> {}, images |-> {}]

Init ==
    /\ delete \in BOOLEAN
    /\ print_orphans \in BOOLEAN
    /\ pc = "submit"
    /\ idx = 1
    /\ fs = [k \in Futures |-> NewFuture]
    /\ frame = [k \in Futures |-> NewFrame]
    /\ overtaken = FALSE
    /\ describe_calls = {}
    /\ results = <<>>
    /\ total_size = 0
    /\ total_orphaned_size = 0
    /\ total_orphaned_snapshots = 0
    /\ dres = 1
    /\ todo = <<>>
    /\ delete_calls = <<>>
    /\ exception = "none"
    /\ out = <<>>

\* ------------------------------------------------------------- the scan pool
Raised == [state |-> "finished", result |-> NoResult, exception |-> TRUE]
Returned(res) == [state |-> "finished", result |-> res, exception |-> FALSE]

Running == { k \in Futures : fs[k].state = "running" }

\* The snapshots the scans have listed so far: the account holds at most
\* MaxSnapshots snapshots over all its regions.
RECURSIVE Listed(_)
Listed(ks) ==
    IF ks = {} THEN 0
    ELSE LET k == CHOOSE x \in ks : TRUE
         IN  Cardinality(frame[k].snapshots) + Listed(ks \ {k})

\* future k completes while a future submitted before it has not
Overtakes(k) == \E j \in 1..(k - 1) : fs[j].state # "finished"

\* A pool thread takes the oldest queued work item.
CanStart(k) ==
    /\ fs[k].state = "pending"
    /\ \A j \in 1..(k - 1) : fs[j].state # "pending"
    /\ Cardinality(Running) < MaxWorkers

\* Mutation: no early return for a region without snapshots.
DescribeSnapshots_NoEarlyReturn(k) ==
    /\ CanStart(k)
    /\ describe_calls' = describe_calls \cup { <<"describe_snapshots", regions[k]>> }
    /\ \/ /\ fs' = [fs EXCEPT ![k] = Raised]
          /\ overtaken' = (overtaken \/ Overtakes(k))
          /\ frame' = frame
       \/ \E snapshots \in SnapshotListings :
            /\ Cardinality(snapshots) + Listed(Futures) <= MaxSnapshots
            /\ frame' = [frame EXCEPT ![k].snapshots = snapshots]
            /\ fs' = [fs EXCEPT ![k].state = "running"]
            /\ overtaken' = overtaken
    /\ UNCHANGED << delete, print_orphans, main_vars >>

\* orphaned_ami_snapshots up to the early return: describe_snapshots is sent
\* and either raises or answers with a listing.
DescribeSnapshots(k) ==
    /\ CanStart(k)
    /\ describe_calls' = describe_calls \cup { <<"describe_snapshots", regions[k]>> }
    /\ \/ /\ fs' = [fs EXCEPT ![k] = Raised]
          /\ overtaken' = (overtaken \/ Overtakes(k))
          /\ frame' = frame
       \/ \E snapshots \in SnapshotListings :
            /\ Cardinality(snapshots) + Listed(Futures) <= MaxSnapshots
            /\ frame' = [frame EXCEPT ![k].snapshots = snapshots]
            /\ IF snapshots = {}
               THEN /\ fs' = [fs EXCEPT ![k] = Returned(EmptyResult(regions[k]))]
                    /\ overtaken' = (overtaken \/ Overtakes(k))
               ELSE /\ fs' = [fs EXCEPT ![k].state = "running"]
                    /\ overtaken' = overtaken
    /\ UNCHANGED << delete, print_orphans, main_vars >>

\* The rest of orphaned_ami_snapshots: describe_images is sent and either
\* raises or answers, and the result is computed.
DescribeImages(k) ==
    /\ fs[k].state = "running"
    /\ describe_calls' = describe_calls \cup { <<"describe_images", regions[k]>> }
    /\ overtaken' = (overtaken \/ Overtakes(k))
    /\ \/ /\ fs' = [fs EXCEPT ![k] = Raised]
          /\ frame' = frame
       \/ \E images \in ImageListings :
            /\ frame' = [frame EXCEPT ![k].images = images]
            /\ fs' = [fs EXCEPT ![k] =
                        Returned(ScanResult(regions[k], frame[k].snapshots, images))]
    /\ UNCHANGED << delete, print_orphans, main_vars >>

\* ---------------------------------------------------------------------- main
\* e.submit(orphaned_ami_snapshots, region, owner_id), lines 88-93
Submit ==
    /\ pc = "submit"
    /\ fs' = [fs EXCEPT ![idx].state = "pending"]
    /\ IF idx = NumRegions
       THEN pc' = "collect" /\ idx' = 1
       ELSE pc' = pc /\ idx' = idx + 1
    /\ UNCHANGED << delete, print_orphans, frame, overtaken, describe_calls, results,
                    total_size, total_orphaned_size, total_orphaned_snapshots,
                    dres, todo, delete_calls, exception, out >>

RegionReport(res) ==
    [ line |-> "region", region |-> res.region,
      ami_count |-> res.ami_count,
      snapshots |-> Cardinality(DOMAIN res.snapshots),
      snapshots_size |-> res.snapshots_size,
      ami_snapshots |-> Cardinality(DOMAIN res.snapshot_to_ami),
      snapshots_ami_size |-> res.snapshots_ami_size,
      orphaned_snapshots |-> Cardinality(res.orphaned_snapshots),
      orphaned_size |-> res.orphaned_size ]

\* lines 117-122
OrphanLines(res) ==
    LET ids == sorted(res.orphaned_snapshots)
    IN  [n \in 1..Len(ids) |->
            [line |-> "orphan", snap_id |-> ids[n],
             description |-> res.snapshots[ids[n]].Description]]

\* Mutation: the futures are consumed last submitted first.
NextFuture_Reversed == NumRegions + 1 - idx

\* the future the loop 'for f in fs' is at
NextFuture == idx

\* Mutation: the total is overwritten instead of added to.
Accumulate_Overwrite(total, x) == x

\* total += x
Accumulate(total, x) == total + x

\* One iteration of the loop of lines 95-122: f.result() blocks until the
\* future at idx is done, and re-raises what the scan raised.
Collect ==
    /\ pc = "collect"
    /\ fs[NextFuture].state = "finished"
    /\ IF fs[NextFuture].exception
       THEN /\ exception' = "scan"
            /\ pc' = "exit_with"
            /\ UNCHANGED << idx, results, total_size, total_orphaned_size,
                            total_orphaned_snapshots, out >>
       ELSE LET res == fs[NextFuture].result
            IN  /\ exception' = exception
                /\ IF idx = NumRegions
                   THEN pc' = "exit_with" /\ idx' = idx
                   ELSE pc' = pc /\ idx' = idx + 1
                /\ IF "empty" \in DOMAIN res
                   THEN /\ out' = Append(out, [line |-> "empty", region |-> res.region])
                        /\ UNCHANGED << results, total_size, total_orphaned_size,
                                        total_orphaned_snapshots >>
                   ELSE /\ results' = Append(results, res)
                        /\ total_size' = Accumulate(total_size, res.snapshots_ami_size)
                        /\ total_orphaned_size' = Accumulate(total_orphaned_size, res.orphaned_size)
                        /\ total_orphaned_snapshots' =
                              Accumulate(total_orphaned_snapshots,
                                         Cardinality(res.orphaned_snapshots))
                        /\ out' = Append(out, RegionReport(res))
                                  \o (IF print_orphans THEN OrphanLines(res) ELSE <<>>)
    /\ UNCHANGED << delete, print_orphans, scan_vars, dres, todo, delete_calls >>

\* Mutation: deletion starts whether or not it was requested.
ExitWith_AlwaysDelete ==
    /\ pc = "exit_with"
    /\ \A k \in Futures : fs[k].state = "finished"
    /\ pc' = IF exception # "none" THEN "raised" ELSE "delete"
    /\ UNCHANGED << delete, print_orphans, scan_vars, idx, results, total_size,
                    total_orphaned_size, total_orphaned_snapshots, dres, todo,
                    delete_calls, exception, out >>

\* Mutation: the error of a scan is swallowed and main goes on.
ExitWith_IgnoreError ==
    /\ pc = "exit_with"
    /\ \A k \in Futures : fs[k].state = "finished"
    /\ pc' = IF delete THEN "delete" ELSE "totals"
    /\ UNCHANGED << delete, print_orphans, scan_vars, idx, results, total_size,
                    total_orphaned_size, total_orphaned_snapshots, dres, todo,
                    delete_calls, exception, out >>

\* Mutation: the pool is left without waiting for the scans (shutdown(wait=False)).
ExitWith_NoWait ==
    /\ pc = "exit_with"
    /\ pc' = IF exception # "none" THEN "raised"
             ELSE IF delete THEN "delete" ELSE "totals"
    /\ UNCHANGED << delete, print_orphans, scan_vars, idx, results, total_size,
                    total_orphaned_size, total_orphaned_snapshots, dres, todo,
                    delete_calls, exception, out >>

\* Leaving the with block: shutdown(wait=True) returns once every submitted
\* scan has run; then the pending exception propagates, or main goes on.
ExitWith ==
    /\ pc = "exit_with"
    /\ \A k \in Futures : fs[k].state = "finished"
    /\ pc' = IF exception # "none" THEN "raised"
             ELSE IF delete THEN "delete" ELSE "totals"
    /\ UNCHANGED << delete, print_orphans, scan_vars, idx, results, total_size,
                    total_orphaned_size, total_orphaned_snapshots, dres, todo,
                    delete_calls, exception, out >>

\* The head of the loop of lines 125-133.
DeleteRegion ==
    /\ pc = "delete"
    /\ IF dres > Len(results)
       THEN /\ pc' = "totals"
            /\ UNCHANGED << dres, todo, out >>
       ELSE LET res == results[dres]
            IN  IF res.orphaned_snapshots = {}
                THEN /\ dres' = dres + 1
                     /\ UNCHANGED << pc, todo, out >>
                ELSE /\ pc' = "delete_snap"
                     /\ todo' = sorted(res.orphaned_snapshots)
                     /\ out' = Append(out, [line |-> "deleting_from",
                                            count |-> Cardinality(res.orphaned_snapshots),
                                            region |-> res.region])
                     /\ dres' = dres
    /\ UNCHANGED << delete, print_orphans, scan_vars, idx, results, total_size,
                    total_orphaned_size, total_orphaned_snapshots, delete_calls,
                    exception >>

\* Mutation: a failed delete is caught and the loop carries on.
delete_snapshot_KeepGoing ==
    /\ pc = "delete_snap"
    /\ IF todo = <<>>
       THEN /\ pc' = "delete"
            /\ dres' = dres + 1
            /\ UNCHANGED << todo, delete_calls, out >>
       ELSE /\ out' = Append(out, [line |-> "deleting", snap_id |-> Head(todo)])
            /\ \E ok \in BOOLEAN :
                  delete_calls' = Append(delete_calls,
                        [region |-> results[dres].region, snap_id |-> Head(todo), ok |-> ok])
            /\ todo' = Tail(todo)
            /\ UNCHANGED << pc, dres >>
    /\ UNCHANGED << delete, print_orphans, scan_vars, idx, results, total_size,
                    total_orphaned_size, total_orphaned_snapshots, exception >>

\* One iteration of the loop of lines 138-139: delete_snapshot(ec2, snap_id)
\* prints and sends the request, which succeeds or raises.
delete_snapshot ==
    /\ pc = "delete_snap"
    /\ IF todo = <<>>
       THEN /\ pc' = "delete"
            /\ dres' = dres + 1
            /\ UNCHANGED << todo, delete_calls, exception, out >>
       ELSE /\ out' = Append(out, [line |-> "deleting", snap_id |-> Head(todo)])
            /\ \E ok \in BOOLEAN :
                /\ delete_calls' = Append(delete_calls,
                        [region |-> results[dres].region, snap_id |-> Head(todo), ok |-> ok])
                /\ IF ok
                   THEN /\ todo' = Tail(todo)
                        /\ UNCHANGED << pc, exception >>
                   ELSE /\ pc' = "raised"
                        /\ exception' = "delete"
                        /\ todo' = todo
            /\ dres' = dres
    /\ UNCHANGED << delete, print_orphans, scan_vars, idx, results, total_size,
                    total_orphaned_size, total_orphaned_snapshots >>

\* '$%d' % (0.022 * 12 * total_orphaned_size)
TotalCost(size) == (264 * size) \div 1000

\* lines 143-148
PrintTotals ==
    /\ pc = "totals"
    /\ pc' = "done"
    /\ out' = Append(out, [ line |-> "totals",
                            total_size |-> total_size,
                            total_orphaned_snapshots |-> total_orphaned_snapshots,
                            total_orphaned_size |-> total_orphaned_size,
                            total_cost |-> TotalCost(total_orphaned_size) ])
    /\ UNCHANGED << delete, print_orphans, scan_vars, idx, results, total_size,
                    total_orphaned_size, total_orphaned_snapshots, dres, todo,
                    delete_calls, exception >>

Next ==
    \/ Submit
    \/ \E k \in Futures : DescribeSnapshots(k)
    \/ \E k \in Futures : DescribeImages(k)
    \/ Collect
    \/ ExitWith
    \/ DeleteRegion
    \/ delete_snapshot
    \/ PrintTotals

Spec == Init /\ [][Next]_vars

\* ================================================================ properties
\* ----------------------------------------------------- vocabulary of the claims
Done(k) == fs[k].state = "finished"

\* the scan of future k has returned a result for a region with snapshots
NonEmpty(k) ==
    Done(k) /\ ~fs[k].exception /\ "empty" \notin DOMAIN fs[k].result

\* the scan of future k has returned the result of a region without snapshots
Empty(k) ==
    Done(k) /\ ~fs[k].exception /\ "empty" \in DOMAIN fs[k].result

\* the futures whose result main has consumed
Collected ==
    IF pc = "submit" THEN {}
    ELSE IF pc = "collect" \/ exception = "scan" THEN 1..(idx - 1)
    ELSE Futures

RegionIndex(r) == CHOOSE k \in Futures : regions[k] = r

IsReportLine(l) == l.line \in {"region", "empty"}

\* the regions of the per-region lines of the output, in print order
ReportedRegions ==
    LET ls == SelectSeq(out, IsReportLine)
    IN  [n \in 1..Len(ls) |-> ls[n].region]

Range(q) == { q[n] : n \in 1..Len(q) }

RECURSIVE SumOver(_, _)
SumOver(f, ks) ==
    IF ks = {} THEN 0
    ELSE LET k == CHOOSE x \in ks : TRUE IN f[k] + SumOver(f, ks \ {k})

\* A description matches a pattern when some split of it fits the pattern
\* (stated without the search order of the matcher): the literal prefix, for
\* the first pattern a non-empty run without ')' up to ") for ", and then at
\* least one character that is neither whitespace nor '+'.
IsAmiChar(c) == c \notin {" ", "\t", "\n", "\r", "\f", "+"}

MatchesCreated(d) ==
    /\ LiteralAt(d, 1, LIT_CREATED)
    /\ \E q \in (Len(LIT_CREATED) + 2)..Len(d) :
         /\ LiteralAt(d, q, LIT_FOR)
         /\ \A n \in (Len(LIT_CREATED) + 1)..(q - 1) : d[n] # ")"
         /\ q + Len(LIT_FOR) <= Len(d)
         /\ IsAmiChar(d[q + Len(LIT_FOR)])

MatchesCopied(d) ==
    /\ LiteralAt(d, 1, LIT_COPIED)
    /\ Len(LIT_COPIED) + 1 <= Len(d)
    /\ IsAmiChar(d[Len(LIT_COPIED) + 1])

\* ------------------------------------------------------------------------ C1
\* C1: in every non-empty scan result, the keys of snapshot_to_ami are exactly
\* the listed snapshots whose description matches one of the two patterns, and
\* a listed snapshot is in orphaned_snapshots if and only if it is such a key
\* and its inferred image id is not among the image ids the region's image
\* listing returned; nothing else is orphaned.
C1_OrphanedIffImageUnknown ==
    \A k \in Futures : NonEmpty(k) =>
        LET res == fs[k].result
            listed == frame[k].snapshots
        IN  /\ DOMAIN res.snapshot_to_ami =
                 { s.SnapshotId : s \in { t \in listed :
                        MatchesCreated(t.Description) \/ MatchesCopied(t.Description) } }
            /\ res.orphaned_snapshots \subseteq { s.SnapshotId : s \in listed }
            /\ \A s \in listed :
                 s.SnapshotId \in res.orphaned_snapshots
                 <=> /\ s.SnapshotId \in DOMAIN res.snapshot_to_ami
                     /\ res.snapshot_to_ami[s.SnapshotId] \notin frame[k].images

\* a result in which one snapshot is orphaned and another has an inferred
\* image id that the image listing returned
C1_Witness ==
    \E k \in Futures :
        /\ NonEmpty(k)
        /\ fs[k].result.orphaned_snapshots # {}
        /\ \E id \in DOMAIN fs[k].result.snapshot_to_ami :
             /\ fs[k].result.snapshot_to_ami[id] \in frame[k].images
             /\ id \notin fs[k].result.orphaned_snapshots

\* ------------------------------------------------------------------------ C2
\* C2: every delete call was issued with deletion requested, for a snapshot in
\* the orphaned set the scan of the call's region computed; without --delete
\* there is no delete call; and while main is still in the scan phase (inside
\* the with block) no delete call has been issued and the scans have sent
\* nothing but describe requests.
C2_DeleteOnlyRequestedOrphans ==
    /\ \A n \in 1..Len(delete_calls) :
         /\ delete
         /\ \E k \in Futures :
              /\ regions[k] = delete_calls[n].region
              /\ NonEmpty(k)
              /\ delete_calls[n].snap_id \in fs[k].result.orphaned_snapshots
    /\ ~delete => delete_calls = <<>>
    /\ pc \in {"submit", "collect", "exit_with"} => delete_calls = <<>>
    /\ \A c \in describe_calls : c[1] \in {"describe_snapshots", "describe_images"}

\* a finished run with --delete that deleted an orphaned snapshot and left
\* alone a snapshot that was not orphaned
C2_Witness ==
    /\ delete /\ pc = "done" /\ delete_calls # <<>>
    /\ \E k \in Futures : NonEmpty(k)
         /\ DOMAIN fs[k].result.snapshots # fs[k].result.orphaned_snapshots

\* ------------------------------------------------------------------------ C3
\* C3: whenever a delete call has been issued, the scan of every region has
\* finished and none has raised; so once a scan has raised, no snapshot of
\* any region is deleted.
C3_DeleteAfterAllScansSucceeded ==
    delete_calls # <<>> =>
        \A k \in Futures : Done(k) /\ ~fs[k].exception

\* deletion was requested, an earlier region had orphans to delete, a scan
\* raised, and main ended without a delete call
C3_Witness ==
    /\ delete /\ pc = "raised" /\ exception = "scan"
    /\ results # <<>> /\ results[1].orphaned_snapshots # {}
    /\ delete_calls = <<>>

\* ------------------------------------------------------------------------ C4
IsPrefix(a, b) == Len(a) <= Len(b) /\ SubSeq(b, 1, Len(a)) = a

DeleteFailed == \E n \in 1..Len(delete_calls) : ~delete_calls[n].ok

\* C4: once a delete call has failed, main has raised and no step issues
\* another delete call; and the delete calls already made are never undone:
\* the log of delete calls only grows at its end.
C4_FailedDeleteAborts ==
    [][ /\ IsPrefix(delete_calls, delete_calls')
        /\ DeleteFailed => (delete_calls' = delete_calls /\ pc = "raised") ]_vars

\* the first delete of a region failed while that region and a later one still
\* had orphaned snapshots
C4_Witness ==
    /\ pc = "raised" /\ exception = "delete"
    /\ DeleteFailed
    /\ \/ Len(todo) >= 2
       \/ \E n \in (dres + 1)..Len(results) : results[n].orphaned_snapshots # {}

\* ------------------------------------------------------------------------ C5
\* C5: when describe_snapshots answered with no snapshots, no describe_images
\* request was sent for that region, the result holds the region name and the
\* 'empty' marker and nothing else, and the region is in neither the results
\* list, nor a report block, nor a delete call; the totals are those of the
\* collected regions that have snapshots.
C5_EmptyRegionSkipped ==
    /\ \A k \in Futures :
         (Done(k) /\ ~fs[k].exception /\ frame[k].snapshots = {}) =>
            /\ <<"describe_images", regions[k]>> \notin describe_calls
            /\ fs[k].result = [region |-> regions[k], empty |-> TRUE]
            /\ DOMAIN fs[k].result = {"region", "empty"}
            /\ \A n \in 1..Len(results) : results[n].region # regions[k]
            /\ \A n \in 1..Len(out) :
                 (out[n].line \in {"region", "deleting_from"}) => out[n].region # regions[k]
            /\ \A n \in 1..Len(delete_calls) : delete_calls[n].region # regions[k]
    /\ LET counted == { k \in Collected : frame[k].snapshots # {} }
       IN  /\ total_size =
                SumOver([k \in counted |-> fs[k].result.snapshots_ami_size], counted)
           /\ total_orphaned_size =
                SumOver([k \in counted |-> fs[k].result.orphaned_size], counted)
           /\ total_orphaned_snapshots =
                SumOver([k \in counted |-> Cardinality(fs[k].result.orphaned_snapshots)],
                        counted)

\* a finished run with deletion in which the first region had no snapshots and
\* a later one had orphans that were deleted
C5_Witness ==
    /\ pc = "done" /\ delete
    /\ Done(1) /\ ~fs[1].exception /\ frame[1].snapshots = {}
    /\ <<"describe_snapshots", regions[1]>> \in describe_calls
    /\ delete_calls # <<>>
    /\ total_orphaned_size > 0

\* ------------------------------------------------------------------------ C6
\* C6: in every non-empty scan result, orphaned_size is the sum of VolumeSize
\* over the listed snapshots that are in orphaned_snapshots, each counted once
\* (for every size v, v times the number of orphaned snapshots of that size),
\* and it is zero when orphaned_snapshots is empty.
C6_OrphanedSizeIsSum ==
    \A k \in Futures : NonEmpty(k) =>
        LET res == fs[k].result
            orphans == { s \in frame[k].snapshots : s.SnapshotId \in res.orphaned_snapshots }
            sizes == { s.VolumeSize : s \in orphans }
        IN  /\ res.orphaned_size =
                 SumOver([v \in sizes |->
                            v * Cardinality({ s \in orphans : s.VolumeSize = v })], sizes)
            /\ res.orphaned_snapshots = {} => res.orphaned_size = 0

\* two orphaned snapshots of the same size in one region
C6_Witness ==
    \E k \in Futures :
        /\ NonEmpty(k)
        /\ fs[k].result.orphaned_snapshots = {SNAP_9, SNAP_10}
        /\ fs[k].result.snapshots[SNAP_9].VolumeSize
             = fs[k].result.snapshots[SNAP_10].VolumeSize
        /\ fs[k].result.orphaned_size = 2 * fs[k].result.snapshots[SNAP_9].VolumeSize

\* ------------------------------------------------------------------------ C7
\* C7: when main has printed the totals, the total orphaned storage it printed
\* is the sum of orphaned_size over the regions with snapshots, and the total
\* orphaned count is the sum of the sizes of their orphaned sets, whatever the
\* order the scans completed in.
C7_TotalsAreSums ==
    pc = "done" =>
        LET counted == { k \in Futures : NonEmpty(k) }
            totals == out[Len(out)]
        IN  /\ totals.line = "totals"
            /\ totals.total_orphaned_size =
                 SumOver([k \in counted |-> fs[k].result.orphaned_size], counted)
            /\ totals.total_orphaned_snapshots =
                 SumOver([k \in counted |-> Cardinality(fs[k].result.orphaned_snapshots)],
                         counted)

\* totals printed over two regions with orphans whose scans completed out of
\* submission order
C7_Witness ==
    /\ pc = "done" /\ overtaken
    /\ Cardinality({ k \in Futures : NonEmpty(k) /\ fs[k].result.orphaned_size > 0 }) >= 2

\* ------------------------------------------------------------------------ C8
\* C8 as stated: while the scan of any region is pending or running, no
\* per-region line has been printed and no total accumulated.
C8_Original ==
    (\E k \in Futures : fs[k].state \in {"pending", "running"}) =>
        /\ out = <<>>
        /\ results = <<>>
        /\ total_size = 0 /\ total_orphaned_size = 0 /\ total_orphaned_snapshots = 0

\* C8 amended: a region is reported and accumulated only once its own scan
\* and every scan submitted before it have finished (later scans may still be
\* pending or running); every scan has finished once main has left the with
\* block, that is before any deletion, the final totals, or the propagation
\* of an error.
C8_ReportedAfterOwnScan ==
    /\ \A k \in Collected : \A j \in 1..k : Done(j)
    /\ \A n \in 1..Len(out) :
         IsReportLine(out[n]) => RegionIndex(out[n].region) \in Collected
    /\ \A n \in 1..Len(results) : RegionIndex(results[n].region) \in Collected
    /\ pc \in {"delete", "delete_snap", "totals", "done", "raised"} =>
         \A k \in Futures : Done(k)

\* the first region is reported and accumulated while a later scan runs
C8_Witness ==
    /\ Len(results) >= 1 /\ total_size > 0
    /\ \E n \in 1..Len(out) : out[n].line = "region"
    /\ \E k \in Futures : fs[k].state \in {"pending", "running"}

\* ------------------------------------------------------------------------ C9
\* C9: the per-region lines of the output name the regions in region-list
\* order, one for each result consumed so far, and the results list holds the
\* consumed non-empty results in that same order, also when the scans
\* completed in another order.
C9_SubmissionOrder ==
    /\ ReportedRegions = SubSeq(regions, 1, Cardinality(Collected))
    /\ \A n \in 1..Len(results) : results[n] = fs[RegionIndex(results[n].region)].result
    /\ \A a \in 1..Len(results) : \A b \in 1..Len(results) :
         a < b => RegionIndex(results[a].region) < RegionIndex(results[b].region)
    /\ { RegionIndex(results[n].region) : n \in 1..Len(results) }
         = { k \in Collected : NonEmpty(k) }

\* all regions reported, at least two of them with snapshots, after a later
\* scan completed before an earlier one
C9_Witness ==
    /\ overtaken
    /\ Len(ReportedRegions) = NumRegions
    /\ Len(results) >= 2

\* ----------------------------------------------------------------------- C10
\* C10: the delete calls are grouped by region in region-list order, and
\* within a region they are in strictly ascending order of snapshot id (so no
\* id is deleted twice); when a run with --delete ends without a failed call,
\* the calls of each non-empty region are exactly its orphaned snapshots and
\* no other region has a call.
C10_DeleteSequence ==
    /\ \A a \in 1..Len(delete_calls) : \A b \in 1..Len(delete_calls) :
         a < b =>
            /\ RegionIndex(delete_calls[a].region) <= RegionIndex(delete_calls[b].region)
            /\ delete_calls[a].region = delete_calls[b].region
                 => StrLess(delete_calls[a].snap_id, delete_calls[b].snap_id)
    /\ (delete /\ pc \in {"totals", "done"}) =>
         /\ \A n \in 1..Len(delete_calls) : delete_calls[n].ok
         /\ \A k \in Futures :
              { c.snap_id : c \in { d \in Range(delete_calls) : d.region = regions[k] } }
                = IF NonEmpty(k) THEN fs[k].result.orphaned_snapshots ELSE {}

\* a finished run that deleted "snap-10" and then "snap-9" of one region
C10_Witness ==
    /\ delete /\ pc = "done" /\ exception = "none"
    /\ Len(delete_calls) = 2
    /\ delete_calls[1].region = delete_calls[2].region
    /\ delete_calls[1].snap_id = SNAP_10 /\ delete_calls[2].snap_id = SNAP_9

====
